---- MODULE Spec2Model ----
(***************************************************************************)
(* Model of the Witside DWH pipeline: the Event Normalizer                 *)
(* (transform_raw_data), the Dimension Reconciler                          *)
(* (check_and_insert_dimension) and the Incremental Fact Loader            *)
(* (run_etl_pipeline), run by one or two writers against one warehouse.    *)
(***************************************************************************)
EXTENDS Integers, Sequences, FiniteSets, Bags, TLC

\* ------------------------------------------------------------------ bounds
\* Longest raw batch handed directly to transform_raw_data (SpecTransform).
MaxLen == 3
\* Longest input file read by a pipeline run (Spec, SpecConcurrent).
MaxFileRows == 2
\* Number of pipeline runs started in one behaviour.
MaxRuns == 3
\* Largest top_n handed to run_q3_top_downtime (SpecQ3).
MaxTopN == 3

\* ------------------------------------------------------------- value space
\* The two concurrent invocations of the pipeline.
Procs == {"A", "B"}

\* production_line_id values of the CSV; NoLine is the empty field (NaN).
Lines == {"L1", "L2"}
NoLine == ""

\* status texts of the CSV: the three mapped tokens and an unmapped one.
StatusTexts == {"START", "ON", "STOP", "BOGUS"}

\* timestamp texts handed directly to transform_raw_data: two parseable ones
\* and an unparseable one.
TimeTexts == {"00:00", "00:10", "junk"}

\* dwh_config.STATUS_MAP
STATUS_MAP == ("START" :> 1) @@ ("ON" :> 2) @@ ("STOP" :> 3)

\* The missing value Series.map yields for a key that is not in the mapping.
NaN == 0
\* The missing value pd.to_datetime(errors='coerce') yields for unparseable text.
NaT == -1

\* pd.to_datetime(text, errors='coerce'): the minutes after midnight of a
\* parseable text, NaT for any other text.
ToDatetime(t) ==
    CASE t = "00:00" -> 0
      [] t = "00:05" -> 5
      [] t = "00:10" -> 10
      [] t = "00:15" -> 15
      [] t = "00:20" -> 20
      [] OTHER -> NaT

\* df['status_name'].map(STATUS_MAP): exact, case-sensitive lookup.
MapStatus(s) == IF s \in DOMAIN STATUS_MAP THEN STATUS_MAP[s] ELSE NaN

\* The columns transform_raw_data requires of the raw frame.
expected_raw_cols == {"production_line_id", "status", "timestamp"}

\* The rows of a raw CSV handed directly to transform_raw_data.
RawRecords ==
    [production_line_id : {"L1", NoLine}, status : StatusTexts, timestamp : TimeTexts]

\* One row of a raw CSV.
Rec(l, s, t) == [production_line_id |-> l, status |-> s, timestamp |-> t]

\* All sequences over S of length at most n.
SeqsUpTo(S, n) == UNION {[1..k -> S] : k \in 0..n}

\* A raw DataFrame: its header and its rows.
Frame(cols, rows) == [columns |-> cols, rows |-> rows]

\* ------------------------------------------------------- transform_raw_data
\* Row i of df after the rename, the status mapping and the timestamp
\* conversion: event_time REPLACES the raw timestamp text (the column is
\* renamed and then overwritten), status_name keeps the raw status text, and
\* the DataFrame index i is carried along.
TransformRow(rows, i) ==
    [idx |-> i,
     production_line_id |-> rows[i].production_line_id,
     status_name |-> rows[i].status,
     status_id |-> MapStatus(rows[i].status),
     event_time |-> ToDatetime(rows[i].timestamp)]

\* is_valid with 'production_line_id' left out of required_cols.
is_valid_no_line(r) ==
    /\ r.status_id # NaN
    /\ r.event_time # NaT

\* is_valid with 'status_id' left out of required_cols.
is_valid_no_status(r) ==
    /\ r.production_line_id # NoLine
    /\ r.event_time # NaT

\* df[required_cols].notna().all(axis=1) for one row.
is_valid(r) ==
    /\ r.production_line_id # NoLine
    /\ r.status_id # NaN
    /\ r.event_time # NaT

\* Select with the quarantine taken as the rows whose status did not map,
\* df[df['status_id'].isna()], instead of df[~is_valid].
RECURSIVE SelectByStatus(_, _, _)
SelectByStatus(rows, n, keep) ==
    IF n = 0 THEN << >>
    ELSE LET r == TransformRow(rows, n)
             rest == SelectByStatus(rows, n - 1, keep)
         IN IF (keep /\ is_valid(r)) \/ (~keep /\ r.status_id = NaN)
            THEN Append(rest, r) ELSE rest

\* The subsequence of the rows 1..n of df that satisfy (keep = TRUE) or fail
\* (keep = FALSE) is_valid, in input order: df[is_valid] and df[~is_valid].
RECURSIVE Select(_, _, _)
Select(rows, n, keep) ==
    IF n = 0 THEN << >>
    ELSE LET r == TransformRow(rows, n)
             rest == Select(rows, n - 1, keep)
         IN IF is_valid(r) = keep THEN Append(rest, r) ELSE rest

\* s is ascending by event_time.
Ascending(s) == \A i, j \in 1..Len(s) : i < j => s[i].event_time <= s[j].event_time

\* The orders sort_values(by='event_time') may leave the rows s in. The call
\* passes no kind, so pandas sorts with its default kind='quicksort', which
\* pandas and numpy document as not stable: rows with equal event_time may
\* come out in any relative order.
SortValues(s) ==
    {t \in [1..Len(s) -> {s[i] : i \in 1..Len(s)}] :
        /\ \A i \in 1..Len(s) : \E j \in 1..Len(s) : t[j] = s[i]
        /\ Ascending(t)}


\* ---------------------------------------------------------------- state
VARIABLES
    dim,                \* Dim_ProductionLine: a bag of production_line_id
    fact,               \* Fact_ProcessEvents: a bag of (line, status_id, event_time)
    quarantine_file,    \* rows of dwh_config.QUARANTINE_FILE, << >> when never written
    runs,               \* pipeline runs started so far
    last_run,           \* input and outcome of the run that ended last
    pc,                 \* pc[p]: where invocation p of run_etl_pipeline stands
    raw_df,             \* raw_df[p]: the frame read from the input file
    load_data,          \* the load_data argument (dwh_config.SHOULD_LOAD_DATA)
    clean_fact_df,      \* clean_fact_df[p]
    quarantined_df,     \* quarantined_df[p]
    to_insert_df,       \* to_insert_df[p]: keys check_and_insert_dimension will insert
    latest_event_time,  \* latest_event_time[p]
    data_to_load,       \* data_to_load[p]
    log,                \* log[p]: what the current run of p has done to the warehouse
    main_pc,            \* where the invocation of execute_pipeline stands
    SETUP,              \* dwh_config: the SETUP_DB, SETUP_TABLES, SETUP_VIEWS switches
    engines,            \* engines[e]: the engine bound at e: "none", "open", "disposed"
    report_file,        \* content of dwh_config.OUTPUT_REPORT_FILE
    exit_status,        \* exit status of the process, NoExit while it runs
    stdout,             \* the closing messages execute_pipeline has printed
    failures,           \* the steps of execute_pipeline that raised
    attempts,           \* the bag of the steps execute_pipeline has attempted
    view_rows,          \* rows of View_Total_Uptime_Downtime
    top_n,              \* the top_n argument of run_q3_top_downtime
    q3_df               \* the frame run_q3_top_downtime reads and the table it returns

vars ==
    <<dim, fact, quarantine_file, runs, last_run, pc, raw_df, load_data, clean_fact_df,
      quarantined_df, to_insert_df, latest_event_time, data_to_load, log,
      main_pc, SETUP, engines, report_file, exit_status, stdout, failures, attempts,
      view_rows, top_n, q3_df>>

\* The state of execute_pipeline outside run_etl_pipeline.
main_vars ==
    <<main_pc, SETUP, engines, report_file, exit_status, stdout, failures, attempts>>

\* The state of run_q3_top_downtime.
q3_vars == <<view_rows, top_n, q3_df>>

\* The locals of one invocation, rebound by each step.
locals == <<raw_df, load_data, clean_fact_df, quarantined_df, to_insert_df,
            latest_event_time, data_to_load>>

\* ------------------------------------------------------------ the warehouse
\* The three columns to_sql writes to Fact_ProcessEvents.
FactColumns(r) ==
    [production_line_id |-> r.production_line_id,
     status_id |-> r.status_id,
     event_time |-> r.event_time]

\* The bag of fact rows a frame of events projects to.
RECURSIVE FactRows(_)
FactRows(s) ==
    IF s = << >> THEN EmptyBag
    ELSE SetToBag({FactColumns(Head(s))}) (+) FactRows(Tail(s))

\* MaxEventTime with MIN in place of MAX in the query.
MinEventTime(f) ==
    IF BagToSet(f) = {} THEN NaT
    ELSE CHOOSE m \in {r.event_time : r \in BagToSet(f)} :
             \A r \in BagToSet(f) : m <= r.event_time

\* SELECT MAX(event_time) FROM Fact_ProcessEvents: NULL (NaT) on an empty table.
MaxEventTime(f) ==
    IF BagToSet(f) = {} THEN NaT
    ELSE CHOOSE m \in {r.event_time : r \in BagToSet(f)} :
             \A r \in BagToSet(f) : r.event_time <= m

\* to_sql(if_exists='append') on Dim_ProductionLine: the storage layer appends
\* the rows as given; it enforces no uniqueness of production_line_id.
DimAppend(table, keys) == table (+) SetToBag(keys)

\* to_sql(if_exists='append') on Fact_ProcessEvents.
FactAppend(table, rows) == table (+) FactRows(rows)

\* ---------------------------------------------------------------- inputs
\* The event log the input files of the pipeline runs are cut from, not in
\* time order: accepted events of two lines, two of them at the same time,
\* and an event with an unmapped status.
EventLog ==
    <<Rec("L2", "START", "00:15"), Rec("L2", "BOGUS", "00:10"),
      Rec("L1", "START", "00:05"), Rec("L1", "STOP", "00:10"), Rec("L2", "ON", "00:10")>>

\* The rows of s at the positions in keep, in the order of s.
RECURSIVE Pick(_, _, _)
Pick(s, n, keep) ==
    IF n = 0 THEN << >>
    ELSE IF n \in keep THEN Append(Pick(s, n - 1, keep), s[n]) ELSE Pick(s, n - 1, keep)

\* The input files a run may find: every selection of at most MaxFileRows
\* rows of the event log, and a file whose header lacks the status column.
InputFiles ==
    {Frame(expected_raw_cols, Pick(EventLog, Len(EventLog), keep)) :
        keep \in {k \in SUBSET (1..Len(EventLog)) : Cardinality(k) <= MaxFileRows}}
        \cup {Frame({"production_line_id", "timestamp"}, << >>)}

\* The frames handed directly to transform_raw_data: every batch of at most
\* MaxLen rows, the three-row scenario batch, and the empty frames whose
\* header lacks a required column.
TransformFrames ==
    {Frame(expected_raw_cols, rows) : rows \in SeqsUpTo(RawRecords, MaxLen)}
        \cup {Frame(expected_raw_cols,
                    <<Rec("L1", "START", "00:00"), Rec("L1", "STOP", "00:10"),
                      Rec("L1", "BOGUS", "00:20")>>)}
        \cup {Frame(cols, << >>) : cols \in (SUBSET expected_raw_cols) \ {expected_raw_cols}}

NoFrame == Frame({}, << >>)

\* log[p] at the start of a run; prev is the run that ended last before it.
NewLog(prev) ==
    [prev |-> prev,
     fact_at_start |-> fact,    \* Fact_ProcessEvents when the run started
     dim_calls |-> 0,           \* to_sql calls on Dim_ProductionLine
     dim_inserted |-> {},       \* keys this run inserted
     fact_calls |-> 0,          \* to_sql calls on Fact_ProcessEvents
     fact_loaded |-> << >>,     \* events this run appended
     max_before |-> NaT,        \* MAX(event_time) of the table just before the append
     dim_at_load |-> {},        \* keys of Dim_ProductionLine just before the append
     existing_values |-> {},    \* keys the reconciler read
     max_failed |-> FALSE,      \* the MAX(event_time) query raised
     warning |-> FALSE,         \* the run printed the warning of the except branch
     failed_at |-> "none"]      \* the step that raised out of the run

\* last_run before any run has ended.
NoRun == [raw |-> NoFrame, outcome |-> "none", loaded |-> 0, dim_inserted |-> {}]

\* exit_status while the process runs.
NoExit == -1

\* The engine variables of one invocation of execute_pipeline: master_engine
\* and dwh_engine of initialize_dwh, dwh_engine of execute_pipeline.
EngineNames == {"master_engine", "setup_dwh_engine", "dwh_engine"}

\* run_etl_pipeline called on its own: no execute_pipeline around it.
NoMain ==
    /\ main_pc = "none"
    /\ SETUP = [DB |-> FALSE, TABLES |-> FALSE, VIEWS |-> FALSE]
    /\ engines = [e \in EngineNames |-> "none"]
    /\ report_file = "absent"
    /\ exit_status = NoExit
    /\ stdout = {}
    /\ failures = {}
    /\ attempts = EmptyBag

\* No call of run_q3_top_downtime.
NoQ3 ==
    /\ view_rows = {}
    /\ top_n = 1
    /\ q3_df = [called |-> FALSE, rows |-> << >>, table |-> << >>]

TypeOK ==
    /\ runs \in 0..MaxRuns
    /\ pc \in [Procs -> {"idle", "extracted", "transformed", "reconcile", "dim_insert",
                         "max_query", "fact_load", "done", "failed"}]
    /\ load_data \in BOOLEAN

Init ==
    /\ dim \in {SetToBag(S) : S \in SUBSET Lines}
    /\ fact = EmptyBag
    /\ quarantine_file = << >>
    /\ runs = 0
    /\ last_run = NoRun
    /\ pc = [p \in Procs |-> "idle"]
    /\ raw_df = [p \in Procs |-> NoFrame]
    /\ load_data \in BOOLEAN
    /\ clean_fact_df = [p \in Procs |-> << >>]
    /\ quarantined_df = [p \in Procs |-> << >>]
    /\ to_insert_df = [p \in Procs |-> {}]
    /\ latest_event_time = [p \in Procs |-> NaT]
    /\ data_to_load = [p \in Procs |-> << >>]
    /\ log = [p \in Procs |-> NewLog(NoRun)]
    /\ NoMain
    /\ NoQ3

\* Invocation p is not inside a run.
AtRest(p) == pc[p] \in {"idle", "done", "failed"}

\* The run of p ends, normally (outcome "done") or by an exception that
\* propagates out of run_etl_pipeline (outcome "failed"); lg is its final log.
EndRun(p, outcome, lg) ==
    /\ pc' = [pc EXCEPT ![p] = outcome]
    /\ last_run' = [raw |-> raw_df[p], outcome |-> outcome,
                    loaded |-> Len(lg.fact_loaded), dim_inserted |-> lg.dim_inserted]
    /\ log' = [log EXCEPT ![p] = lg]

\* ------------------------------------------------------- transform_raw_data
\* The results transform_raw_data may return for a frame that has the
\* required columns: <<clean_fact_df, quarantined_df>>.
transform_raw_data(raw) ==
    {<<c, Select(raw.rows, Len(raw.rows), FALSE)>> :
        c \in SortValues(Select(raw.rows, Len(raw.rows), TRUE))}

\* ---------------------------------------------------------- run_etl_pipeline
\* 1. Extraction: pd.read_csv of the input file, which may be missing.
Extract(p) ==
    /\ AtRest(p)
    /\ runs < MaxRuns
    /\ runs' = runs + 1
    /\ clean_fact_df' = [clean_fact_df EXCEPT ![p] = << >>]
    /\ quarantined_df' = [quarantined_df EXCEPT ![p] = << >>]
    /\ to_insert_df' = [to_insert_df EXCEPT ![p] = {}]
    /\ latest_event_time' = [latest_event_time EXCEPT ![p] = NaT]
    /\ data_to_load' = [data_to_load EXCEPT ![p] = << >>]
    /\ \/ \E file \in InputFiles :
            /\ raw_df' = [raw_df EXCEPT ![p] = file]
            /\ pc' = [pc EXCEPT ![p] = "extracted"]
            /\ log' = [log EXCEPT ![p] = NewLog(last_run)]
            /\ UNCHANGED last_run
       \/ \* FileNotFoundError is re-raised
          /\ raw_df' = [raw_df EXCEPT ![p] = NoFrame]
          /\ pc' = [pc EXCEPT ![p] = "failed"]
          /\ log' = [log EXCEPT ![p] = [NewLog(last_run) EXCEPT !.failed_at = "extract"]]
          /\ last_run' = [NoRun EXCEPT !.outcome = "failed"]
    /\ UNCHANGED <<dim, fact, quarantine_file, load_data>>
    /\ UNCHANGED <<main_vars, q3_vars>>

\* The start of one of two runs that may overlap: each invocation runs once.
ExtractOnce(p) ==
    /\ pc[p] = "idle"
    /\ Extract(p)

\* 2. Transformation and validation: the call of transform_raw_data.
Transform(p) ==
    /\ pc[p] = "extracted"
    /\ \/ \* a required raw column is missing: ValueError
          /\ ~(expected_raw_cols \subseteq raw_df[p].columns)
          /\ EndRun(p, "failed", [log[p] EXCEPT !.failed_at = "transform"])
          /\ UNCHANGED <<clean_fact_df, quarantined_df>>
       \/ /\ expected_raw_cols \subseteq raw_df[p].columns
          /\ \E res \in transform_raw_data(raw_df[p]) :
                /\ clean_fact_df' = [clean_fact_df EXCEPT ![p] = res[1]]
                /\ quarantined_df' = [quarantined_df EXCEPT ![p] = res[2]]
          /\ pc' = [pc EXCEPT ![p] = "transformed"]
          /\ UNCHANGED <<last_run, log>>
    /\ UNCHANGED <<dim, fact, quarantine_file, runs, raw_df, load_data, to_insert_df,
                   latest_event_time, data_to_load>>
    /\ UNCHANGED <<main_vars, q3_vars>>

\* quarantined_df.to_csv(path, index=False): the rows without the index.
to_csv(df) ==
    [i \in 1..Len(df) |-> [c \in DOMAIN df[i] \ {"idx"} |-> df[i][c]]]

\* QuarantineWrite opening the file in append mode.
QuarantineAppend(file, df) == file \o to_csv(df)

\* The content of the quarantine file after step 3: rewritten from
\* quarantined_df when that is not empty, left as it is otherwise.
QuarantineWrite(file, df) == IF df # << >> THEN to_csv(df) ELSE file

\* 3. Quarantine: the file is rewritten when this run quarantined something;
\* then the load_data switch.
Quarantine(p) ==
    /\ pc[p] = "transformed"
    /\ quarantine_file' = QuarantineWrite(quarantine_file, quarantined_df[p])
    /\ IF load_data
         THEN /\ pc' = [pc EXCEPT ![p] = "reconcile"]
              /\ UNCHANGED <<last_run, log>>
         ELSE EndRun(p, "done", log[p])
    /\ UNCHANGED <<dim, fact, runs, locals>>
    /\ UNCHANGED <<main_vars, q3_vars>>

\* fact_df[column_name].unique()
unique_values(df) == {df[i].production_line_id : i \in 1..Len(df)}

\* NotIn without the filter: every batch key is inserted.
NotInUnfiltered(new_dim, existing_values) == new_dim

\* NotIn without the negation: new_dim_df[new_dim_df[column_name].isin(...)].
NotInMissingNegation(new_dim, existing_values) == new_dim \cap existing_values

\* new_dim_df[~new_dim_df[column_name].isin(existing_values)]
NotIn(new_dim, existing_values) == new_dim \ existing_values

\* 4a. check_and_insert_dimension up to the filter: the early return on no
\* data, the read of the dimension table (which may raise), the difference.
DimCheck(p) ==
    /\ pc[p] = "reconcile"
    /\ \/ /\ unique_values(clean_fact_df[p]) = {}
          /\ pc' = [pc EXCEPT ![p] = "max_query"]
          /\ UNCHANGED <<to_insert_df, last_run, log>>
       \/ /\ unique_values(clean_fact_df[p]) # {}
          /\ to_insert_df' = [to_insert_df EXCEPT ![p] =
                NotIn(unique_values(clean_fact_df[p]), BagToSet(dim))]
          /\ pc' = [pc EXCEPT ![p] = "dim_insert"]
          /\ log' = [log EXCEPT ![p].existing_values = BagToSet(dim)]
          /\ UNCHANGED last_run
       \/ \* pd.read_sql raises
          /\ unique_values(clean_fact_df[p]) # {}
          /\ EndRun(p, "failed", [log[p] EXCEPT !.failed_at = "dim_read"])
          /\ UNCHANGED to_insert_df
    /\ UNCHANGED <<dim, fact, quarantine_file, runs, raw_df, load_data, clean_fact_df,
                   quarantined_df, latest_event_time, data_to_load>>
    /\ UNCHANGED <<main_vars, q3_vars>>

\* DimRowsWritten writing new_dim_df, every key of the batch.
DimRowsWrittenAll(p) == unique_values(clean_fact_df[p])

\* DimRowsWritten with an existence check against the table at insert time.
DimRowsWrittenRechecked(p) == to_insert_df[p] \ BagToSet(dim)

\* The keys the to_sql call of check_and_insert_dimension writes: to_insert_df
\* as computed from the earlier read, with no existence check at insert time.
DimRowsWritten(p) == to_insert_df[p]

\* 4a. check_and_insert_dimension from the emptiness test on: the append of
\* to_insert_df, in one transaction, or no write at all.
DimInsert(p) ==
    /\ pc[p] = "dim_insert"
    /\ \/ /\ to_insert_df[p] = {}
          /\ pc' = [pc EXCEPT ![p] = "max_query"]
          /\ UNCHANGED <<dim, last_run, log>>
       \/ /\ to_insert_df[p] # {}
          /\ dim' = DimAppend(dim, DimRowsWritten(p))
          /\ pc' = [pc EXCEPT ![p] = "max_query"]
          /\ log' = [log EXCEPT ![p].dim_calls = @ + 1,
                                ![p].dim_inserted = DimRowsWritten(p)]
          /\ UNCHANGED last_run
       \/ \* to_sql raises; its transaction is rolled back
          /\ to_insert_df[p] # {}
          /\ EndRun(p, "failed", [log[p] EXCEPT !.dim_calls = @ + 1,
                                                !.failed_at = "dim_write"])
          /\ UNCHANGED dim
    /\ UNCHANGED <<fact, quarantine_file, runs, locals>>
    /\ UNCHANGED <<main_vars, q3_vars>>


\* NewerThan with the comparison left out: every accepted event passes.
NewerThanUnfiltered(df, latest) == df

\* NewerThan with >= in place of >.
NewerThanOrEqual(df, latest) == SelectSeq(df, LAMBDA r : r.event_time >= latest)

\* clean_fact_df[clean_fact_df['event_time'] > latest_event_time]
NewerThan(df, latest) == SelectSeq(df, LAMBDA r : r.event_time > latest)


\* FilterIncoming loading nothing when there is no latest event time.
FilterIncomingNoneOnNaT(df, latest) == IF latest = NaT THEN << >> ELSE NewerThan(df, latest)

\* The filter of the incoming data on latest_event_time.
FilterIncoming(df, latest) == IF latest = NaT THEN df ELSE NewerThan(df, latest)

\* 4b. The high-water mark: SELECT MAX(event_time); any exception of the
\* query is caught and the table is taken to be empty.
MaxQuery(p) ==
    /\ pc[p] = "max_query"
    /\ \/ /\ latest_event_time' = [latest_event_time EXCEPT ![p] = MaxEventTime(fact)]
          /\ data_to_load' = [data_to_load EXCEPT ![p] =
                FilterIncoming(clean_fact_df[p], MaxEventTime(fact))]
          /\ UNCHANGED log
       \/ \* except Exception: latest_event_time = pd.NaT
          /\ latest_event_time' = [latest_event_time EXCEPT ![p] = NaT]
          /\ data_to_load' = [data_to_load EXCEPT ![p] =
                FilterIncoming(clean_fact_df[p], NaT)]
          /\ log' = [log EXCEPT ![p].max_failed = TRUE, ![p].warning = TRUE]
    /\ pc' = [pc EXCEPT ![p] = "fact_load"]
    /\ UNCHANGED <<dim, fact, quarantine_file, runs, last_run, raw_df, load_data,
                   clean_fact_df, quarantined_df, to_insert_df>>
    /\ UNCHANGED <<main_vars, q3_vars>>

\* 4b. The append of data_to_load to Fact_ProcessEvents, in one transaction,
\* or no write when nothing is eligible.
FactLoad(p) ==
    /\ pc[p] = "fact_load"
    /\ \/ /\ data_to_load[p] = << >>
          /\ EndRun(p, "done", log[p])
          /\ UNCHANGED fact
       \/ /\ data_to_load[p] # << >>
          /\ fact' = FactAppend(fact, data_to_load[p])
          /\ EndRun(p, "done", [log[p] EXCEPT !.fact_calls = @ + 1,
                                              !.fact_loaded = data_to_load[p],
                                              !.max_before = MaxEventTime(fact),
                                              !.dim_at_load = BagToSet(dim)])
       \/ \* to_sql raises; its transaction is rolled back
          /\ data_to_load[p] # << >>
          /\ EndRun(p, "failed", [log[p] EXCEPT !.fact_calls = @ + 1,
                                                !.failed_at = "fact_write"])
          /\ UNCHANGED fact
    /\ UNCHANGED <<dim, quarantine_file, runs, locals>>
    /\ UNCHANGED <<main_vars, q3_vars>>

\* The steps of a run after its extraction.
Step(p) ==
    \/ Transform(p)
    \/ Quarantine(p)
    \/ DimCheck(p)
    \/ DimInsert(p)
    \/ MaxQuery(p)
    \/ FactLoad(p)

\* The scheduled job of the single-writer deployment the design assumes.
Job == "A"

\* Runs under external mutual exclusion: the job runs again only after its
\* previous run has ended, and nothing else writes to the warehouse.
Next == Extract(Job) \/ Step(Job)

Spec == Init /\ [][Next]_vars

\* Two invocations with nothing between them: runs may overlap.
NextConcurrent == \E p \in Procs : ExtractOnce(p) \/ Step(p)

SpecConcurrent == Init /\ [][NextConcurrent]_vars

\* transform_raw_data alone, on every frame of TransformFrames.
InitTransform ==
    /\ dim = EmptyBag
    /\ fact = EmptyBag
    /\ quarantine_file = << >>
    /\ runs = 1
    /\ last_run = NoRun
    /\ pc = [p \in Procs |-> IF p = "A" THEN "extracted" ELSE "idle"]
    /\ \E f \in TransformFrames : raw_df = [p \in Procs |-> IF p = "A" THEN f ELSE NoFrame]
    /\ load_data = TRUE
    /\ clean_fact_df = [p \in Procs |-> << >>]
    /\ quarantined_df = [p \in Procs |-> << >>]
    /\ to_insert_df = [p \in Procs |-> {}]
    /\ latest_event_time = [p \in Procs |-> NaT]
    /\ data_to_load = [p \in Procs |-> << >>]
    /\ log = [p \in Procs |-> NewLog(NoRun)]
    /\ NoMain
    /\ NoQ3

NextTransform == \E p \in Procs : Transform(p)

SpecTransform == InitTransform /\ [][NextTransform]_vars


\* ---------------------------------------------------------- execute_pipeline
\* A fact loaded by an earlier invocation of the pipeline.
PriorFact ==
    [production_line_id |-> "L2", status_id |-> STATUS_MAP["ON"],
     event_time |-> ToDatetime("00:10")]

\* One invocation of execute_pipeline, about to start, against a warehouse
\* that is empty or holds facts of an earlier invocation, with or without a
\* report file of an earlier invocation.
InitMain ==
    /\ dim \in {SetToBag(S) : S \in SUBSET Lines}
    /\ fact \in {EmptyBag, SetToBag({PriorFact})}
    /\ quarantine_file = << >>
    /\ runs = 0
    /\ last_run = NoRun
    /\ pc = [p \in Procs |-> "idle"]
    /\ raw_df = [p \in Procs |-> NoFrame]
    /\ load_data \in BOOLEAN
    /\ clean_fact_df = [p \in Procs |-> << >>]
    /\ quarantined_df = [p \in Procs |-> << >>]
    /\ to_insert_df = [p \in Procs |-> {}]
    /\ latest_event_time = [p \in Procs |-> NaT]
    /\ data_to_load = [p \in Procs |-> << >>]
    /\ log = [p \in Procs |-> NewLog(NoRun)]
    /\ main_pc = "start"
    /\ SETUP \in [DB : BOOLEAN, TABLES : BOOLEAN, VIEWS : BOOLEAN]
    /\ engines = [e \in EngineNames |-> "none"]
    /\ report_file \in {"absent", "previous"}
    /\ exit_status = NoExit
    /\ stdout = {}
    /\ failures = {}
    /\ attempts = EmptyBag
    /\ NoQ3

\* The step named step is attempted.
Attempt(step) == attempts' = attempts (+) SetToBag({step})

\* The step named step raises to the handlers of execute_pipeline.
Raise(step) ==
    /\ failures' = failures \cup {step}
    /\ main_pc' = "except"

\* initialize_dwh, 1: the master engine, create_database_if_not_exists and the
\* dispose of the master engine, which an exception skips.
DatabaseCreation ==
    /\ main_pc = "start"
    /\ Attempt("database_creation")
    /\ \/ /\ ~SETUP.DB
          /\ main_pc' = "schema"
          /\ UNCHANGED <<engines, failures>>
       \/ \* the database exists or is created
          /\ SETUP.DB
          /\ engines' = [engines EXCEPT !["master_engine"] = "disposed"]
          /\ main_pc' = "schema"
          /\ UNCHANGED failures
       \/ \* ProgrammingError of the check: a warning, and the flow goes on
          /\ SETUP.DB
          /\ engines' = [engines EXCEPT !["master_engine"] = "disposed"]
          /\ failures' = failures \cup {"database_check_privilege"}
          /\ main_pc' = "schema"
       \/ \* the connection or any other exception of the check: raised
          /\ SETUP.DB
          /\ engines' = [engines EXCEPT !["master_engine"] = "open"]
          /\ Raise("database_creation")
    /\ UNCHANGED <<dim, fact, quarantine_file, runs, last_run, pc, locals, log>>
    /\ UNCHANGED <<SETUP, report_file, exit_status, stdout, q3_vars>>

\* initialize_dwh, 2: the engine of the schema phase and the two DDL scripts,
\* each in one transaction; the engine is disposed when a script raises and
\* returned to the caller otherwise.
SchemaCreation ==
    /\ main_pc = "schema"
    /\ Attempt("schema_creation")
    /\ \/ \* both scripts skipped, or run without error
          /\ engines' = [engines EXCEPT !["setup_dwh_engine"] = "open"]
          /\ dim' = IF SETUP.TABLES THEN EmptyBag ELSE dim
          /\ fact' = IF SETUP.TABLES THEN EmptyBag ELSE fact
          /\ main_pc' = "connect"
          /\ UNCHANGED failures
       \/ \* the tables script raises
          /\ SETUP.TABLES
          /\ engines' = [engines EXCEPT !["setup_dwh_engine"] = "disposed"]
          /\ Raise("ddl_tables")
          /\ UNCHANGED <<dim, fact>>
       \/ \* the views script raises, after the tables script if that one ran
          /\ SETUP.VIEWS
          /\ engines' = [engines EXCEPT !["setup_dwh_engine"] = "disposed"]
          /\ dim' = IF SETUP.TABLES THEN EmptyBag ELSE dim
          /\ fact' = IF SETUP.TABLES THEN EmptyBag ELSE fact
          /\ Raise("ddl_views")
    /\ UNCHANGED <<quarantine_file, runs, last_run, pc, locals, log>>
    /\ UNCHANGED <<SETUP, report_file, exit_status, stdout, q3_vars>>

\* execute_pipeline: the return value of initialize_dwh is dropped and the
\* main engine is created; then the SHOULD_LOAD_DATA switch.
Connect ==
    /\ main_pc = "connect"
    /\ Attempt("get_db_engine")
    /\ \/ /\ engines' = [engines EXCEPT !["dwh_engine"] = "open"]
          /\ main_pc' = IF load_data THEN "etl" ELSE "report"
          /\ UNCHANGED failures
       \/ \* create_engine raises: dwh_engine stays None
          /\ Raise("get_db_engine")
          /\ UNCHANGED engines
    /\ UNCHANGED <<dim, fact, quarantine_file, runs, last_run, pc, locals, log>>
    /\ UNCHANGED <<SETUP, report_file, exit_status, stdout, q3_vars>>

\* execute_pipeline: the call of run_etl_pipeline, step by step.
RunEtl ==
    /\ main_pc = "etl"
    /\ ExtractOnce(Job) \/ Step(Job)

\* run_etl_pipeline returns, or an exception leaves it.
EtlEnd ==
    /\ main_pc = "etl"
    /\ \/ /\ pc[Job] = "done"
          /\ main_pc' = "report"
          /\ UNCHANGED failures
       \/ /\ pc[Job] = "failed"
          /\ Raise(log[Job].failed_at)
    /\ Attempt("run_etl_pipeline")
    /\ UNCHANGED <<dim, fact, quarantine_file, runs, last_run, pc, locals, log>>
    /\ UNCHANGED <<SETUP, engines, report_file, exit_status, stdout, q3_vars>>

\* The steps of generate_analytics_report, in the order it takes them.
ReportSteps == <<"q1", "q2", "q3", "report_open", "report_write">>

\* generate_analytics_report: the three queries, then write_report_to_file,
\* whose open(output_file, 'w') empties the file before anything is written.
\* The first step that raises ends the call; successful_run is set after it.
GenerateReport ==
    /\ main_pc = "report"
    /\ Attempt("generate_analytics_report")
    /\ \/ \E i \in 1..Len(ReportSteps) :
            /\ Raise(ReportSteps[i])
            /\ report_file' =
                 IF ReportSteps[i] = "report_write" THEN "truncated" ELSE report_file
       \/ /\ report_file' = "written"
          /\ main_pc' = "returned"
          /\ UNCHANGED failures
    /\ UNCHANGED <<dim, fact, quarantine_file, runs, last_run, pc, locals, log>>
    /\ UNCHANGED <<SETUP, engines, exit_status, stdout, q3_vars>>

\* The status every except clause of execute_pipeline passes to sys.exit.
sys_exit_status == 1

\* The except clauses: FileNotFoundError, SQLAlchemyError, Exception.
Except ==
    /\ main_pc = "except"
    /\ exit_status' = sys_exit_status
    /\ main_pc' = "exiting"
    /\ UNCHANGED <<dim, fact, quarantine_file, runs, last_run, pc, locals, log>>
    /\ UNCHANGED <<SETUP, engines, report_file, stdout, failures, attempts, q3_vars>>

\* successful_run taken to be set on every path.
successful_run_always(at) == TRUE

\* successful_run: set only when the try block ran to its end.
successful_run(at) == at = "returned"

\* The finally clause: the dispose of the main engine when there is one, and
\* the closing message.
Finally ==
    /\ main_pc \in {"returned", "exiting"}
    /\ engines' = [engines EXCEPT !["dwh_engine"] = IF @ = "open" THEN "disposed" ELSE @]
    /\ stdout' = stdout \cup {IF successful_run(main_pc) THEN "COMPLETED SUCCESSFULLY"
                                                         ELSE "HALTED"}
    /\ exit_status' = IF main_pc = "returned" THEN 0 ELSE exit_status
    /\ main_pc' = "exited"
    /\ UNCHANGED <<dim, fact, quarantine_file, runs, last_run, pc, locals, log>>
    /\ UNCHANGED <<SETUP, report_file, failures, attempts, q3_vars>>

NextMain ==
    \/ DatabaseCreation
    \/ SchemaCreation
    \/ Connect
    \/ RunEtl
    \/ EtlEnd
    \/ GenerateReport
    \/ Except
    \/ Finally

SpecMain == InitMain /\ [][NextMain]_vars


\* ------------------------------------------------------- run_q3_top_downtime
\* The lines View_Total_Uptime_Downtime may have a row for, and the totals of
\* floor_downtime_seconds a row may hold.
ViewLines == {"L1", "L2", "L3"}
DowntimeSeconds == {0, 50, 100}

\* The contents of View_Total_Uptime_Downtime: one row for each line of the
\* floor, with its total.
ViewTables ==
    UNION {{{[production_line_id |-> l, floor_downtime_seconds |-> t[l]] : l \in S} :
                t \in [S -> DowntimeSeconds]} : S \in SUBSET ViewLines}

\* CAST(floor_downtime_seconds / 60.0 AS DECIMAL(10, 4)): minutes, rounded to
\* four decimals, as a count of ten-thousandths.
DecimalMinutes(seconds) == (seconds * 10000 + 30) \div 60

\* ORDER BY with ASC in place of DESC.
OrderedAsc(s) ==
    \A i, j \in 1..Len(s) :
        i < j => s[i].floor_downtime_seconds <= s[j].floor_downtime_seconds

\* ORDER BY floor_downtime_seconds DESC; rows of equal total in any order.
OrderedDesc(s) ==
    \A i, j \in 1..Len(s) :
        i < j => s[i].floor_downtime_seconds >= s[j].floor_downtime_seconds

\* The orders in which ORDER BY may deliver the rows of the view.
OrderBy(rows) ==
    {s \in [1..Cardinality(rows) -> rows] :
        /\ \A i, j \in 1..Cardinality(rows) : i # j => s[i] # s[j]
        /\ OrderedDesc(s)}

\* SELECT TOP n: the first n rows, all of them when there are fewer.
Top(s, n) == SubSeq(s, 1, IF n < Len(s) THEN n ELSE Len(s))

\* The select list, and the ' minutes' appended to the downtime column.
Q3Row(r) ==
    [production_line_id |-> r.production_line_id,
     downtime |-> <<DecimalMinutes(r.floor_downtime_seconds), " minutes">>]

\* format_markdown_table: the header, the separator and one line for each
\* row, or the one line of an empty frame.
format_markdown_table(df) ==
    IF df = << >> THEN <<"No results found.">>
    ELSE <<"header", "separator">> \o df

\* One call of run_q3_top_downtime, about to be made.
InitQ3 ==
    /\ dim = EmptyBag
    /\ fact = EmptyBag
    /\ quarantine_file = << >>
    /\ runs = 0
    /\ last_run = NoRun
    /\ pc = [p \in Procs |-> "idle"]
    /\ raw_df = [p \in Procs |-> NoFrame]
    /\ load_data = TRUE
    /\ clean_fact_df = [p \in Procs |-> << >>]
    /\ quarantined_df = [p \in Procs |-> << >>]
    /\ to_insert_df = [p \in Procs |-> {}]
    /\ latest_event_time = [p \in Procs |-> NaT]
    /\ data_to_load = [p \in Procs |-> << >>]
    /\ log = [p \in Procs |-> NewLog(NoRun)]
    /\ NoMain
    /\ view_rows \in ViewTables
    /\ top_n \in 1..MaxTopN
    /\ q3_df = [called |-> FALSE, rows |-> << >>, table |-> << >>]

\* run_q3_top_downtime: the query, the downtime column, the table.
RunQ3 ==
    /\ ~q3_df.called
    /\ \E s \in OrderBy(view_rows) :
          LET df == [i \in 1..Len(Top(s, top_n)) |-> Q3Row(Top(s, top_n)[i])] IN
              q3_df' = [called |-> TRUE, rows |-> df, table |-> format_markdown_table(df)]
    /\ UNCHANGED <<dim, fact, quarantine_file, runs, last_run, pc, locals, log>>
    /\ UNCHANGED <<main_vars, view_rows, top_n>>

NextQ3 == RunQ3

SpecQ3 == InitQ3 /\ [][NextQ3]_vars


\* ------------------------------------------------------------------ claims
\* The DataFrame index labels of the rows of df.
Idx(df) == {df[i].idx : i \in 1..Len(df)}

\* The rows of df, as a set.
Rows(df) == {df[i] : i \in 1..Len(df)}

\* The timestamp texts that denote a time.
ParseableTexts == {"00:00", "00:05", "00:10", "00:15", "00:20"}

\* Raw record rec passes the three checks of the Event Normalizer.
Acceptable(rec) ==
    /\ rec.production_line_id # ""
    /\ rec.status \in {"START", "ON", "STOP"}
    /\ rec.timestamp \in ParseableTexts

\* The code of the fixed status enumeration for a mapped status text.
StatusCode(text) == CASE text = "START" -> 1 [] text = "ON" -> 2 [] text = "STOP" -> 3

\* C1: for every batch with the three required columns, the accepted and the
\* quarantined set returned by transform_raw_data partition the input: every
\* input record (by position) is in exactly one of the two, carrying the
\* line identifier and status text of that input record, and the two sets
\* together have as many rows as the input.
C1_Partition ==
    \A p \in Procs : pc[p] = "transformed" =>
        LET c == clean_fact_df[p]
            q == quarantined_df[p]
            rows == raw_df[p].rows
        IN /\ Idx(c) \cup Idx(q) = 1..Len(rows)
           /\ Idx(c) \cap Idx(q) = {}
           /\ Len(c) + Len(q) = Len(rows)
           /\ \A r \in Rows(c) \cup Rows(q) :
                /\ r.production_line_id = rows[r.idx].production_line_id
                /\ r.status_name = rows[r.idx].status

\* A three-row batch was split into a non-empty accepted and a non-empty
\* quarantined set.
C1_Witness ==
    \E p \in Procs :
        /\ pc[p] = "transformed"
        /\ Len(raw_df[p].rows) = 3
        /\ clean_fact_df[p] # << >>
        /\ quarantined_df[p] # << >>

\* C2: a record is accepted iff its production_line_id is present, its
\* status text is one of START, ON, STOP and its timestamp parses; every
\* accepted event carries the code START=1, ON=2, STOP=3 of its status and a
\* non-null event_time, and a quarantined record with an unmapped status has
\* a null status_id.
C2_AcceptedIff ==
    \A p \in Procs : pc[p] = "transformed" =>
        LET rows == raw_df[p].rows
        IN /\ \A i \in 1..Len(rows) : (i \in Idx(clean_fact_df[p])) <=> Acceptable(rows[i])
           /\ \A r \in Rows(clean_fact_df[p]) :
                /\ r.status_id \in {1, 2, 3}
                /\ r.status_id = StatusCode(rows[r.idx].status)
                /\ r.event_time # NaT
           /\ \A r \in Rows(quarantined_df[p]) :
                r.status_name \notin {"START", "ON", "STOP"} => r.status_id = NaN

\* The scenario batch START, STOP, BOGUS: two rows accepted with the codes 1
\* and 3, the BOGUS row quarantined with a null status_id.
C2_Witness ==
    \E p \in Procs :
        /\ pc[p] = "transformed"
        /\ raw_df[p].rows = <<Rec("L1", "START", "00:00"), Rec("L1", "STOP", "00:10"),
                              Rec("L1", "BOGUS", "00:20")>>
        /\ Len(clean_fact_df[p]) = 2
        /\ {r.status_id : r \in Rows(clean_fact_df[p])} = {1, 3}
        /\ Len(quarantined_df[p]) = 1
        /\ quarantined_df[p][1].status_name = "BOGUS"
        /\ quarantined_df[p][1].status_id = NaN

\* C4: the accepted events are ascending by event_time and the sort is
\* stable: two accepted events with equal event_time keep the relative order
\* they had in the input.
C4_SortedStable ==
    \A p \in Procs : pc[p] = "transformed" =>
        LET c == clean_fact_df[p]
        IN \A i, j \in 1..Len(c) : i < j =>
              /\ c[i].event_time <= c[j].event_time
              /\ c[i].event_time = c[j].event_time => c[i].idx < c[j].idx

\* The part of C4 the code does guarantee: ascending by event_time.
C4_Ascending ==
    \A p \in Procs : pc[p] = "transformed" => Ascending(clean_fact_df[p])


\* The run of p has passed check_and_insert_dimension without an exception.
Reconciled(p) ==
    /\ load_data
    /\ \/ pc[p] \in {"max_query", "fact_load"}
       \/ pc[p] = "done"
       \/ pc[p] = "failed" /\ log[p].failed_at = "fact_write"

\* The accepted events of the batch of p, derived from its raw input.
AcceptedIdx(p) == {i \in 1..Len(raw_df[p].rows) : Acceptable(raw_df[p].rows[i])}

\* C3: every row a run has appended to Fact_ProcessEvents is an accepted
\* event of that run (a valid line, a status code 1..3, a non-null time, and
\* none of its quarantined records); no dimension row is created for a key
\* that only a quarantined record carries; and every row of the fact table is
\* a valid canonical event.
C3_OnlyAcceptedLoaded ==
    /\ \A p \in Procs :
        /\ \A r \in Rows(log[p].fact_loaded) :
              /\ r \in Rows(clean_fact_df[p])
              /\ r.idx \in AcceptedIdx(p)
              /\ r.idx \notin Idx(quarantined_df[p])
        /\ log[p].dim_inserted \subseteq
              {raw_df[p].rows[i].production_line_id : i \in AcceptedIdx(p)}
    /\ \A f \in BagToSet(fact) :
        /\ f.production_line_id # ""
        /\ f.status_id \in {1, 2, 3}
        /\ f.event_time # NaT

\* A finished run appended facts and quarantined a record whose line has no
\* dimension row.
C3_Witness ==
    \E p \in Procs :
        /\ pc[p] = "done"
        /\ log[p].fact_loaded # << >>
        /\ \E q \in Rows(quarantined_df[p]) : q.production_line_id \notin BagToSet(dim)

\* C5 as stated: on every path, no row is appended whose event_time is less
\* than or equal to the maximum event_time of the fact table immediately
\* before the append.
C5_NeverAtOrBelowMax ==
    \A p \in Procs : \A r \in Rows(log[p].fact_loaded) :
        log[p].max_before = NaT \/ r.event_time > log[p].max_before

\* C5 amended: in a run whose MAX(event_time) query succeeded, under single-
\* writer invocation, no appended row has an event_time less than or equal to
\* the maximum of the table immediately before the append, that maximum is
\* the one the run read, and the rows loaded are exactly the accepted events
\* strictly newer than it (all of them when the table was empty).
C5_AboveMaxWhenLookupSucceeds ==
    \A p \in Procs : (pc[p] = "done" /\ load_data /\ ~log[p].max_failed) =>
        /\ \A r \in Rows(log[p].fact_loaded) :
              log[p].max_before = NaT \/ r.event_time > log[p].max_before
        /\ log[p].fact_loaded # << >> => log[p].max_before = latest_event_time[p]
        /\ Rows(log[p].fact_loaded) =
              {r \in Rows(clean_fact_df[p]) :
                  latest_event_time[p] = NaT \/ r.event_time > latest_event_time[p]}

\* The scenario: the table's maximum was 00:10, the batch held accepted
\* events at 00:05 and 00:15, and only the 00:15 event was loaded.
C5_Witness ==
    \E p \in Procs :
        /\ pc[p] = "done"
        /\ ~log[p].max_failed
        /\ log[p].max_before = 10
        /\ {r.event_time : r \in Rows(clean_fact_df[p])} = {5, 15}
        /\ {r.event_time : r \in Rows(log[p].fact_loaded)} = {15}

\* The run of p completed and repeats the input of a run that completed
\* immediately before it.
RepeatsLastRun(p) ==
    /\ pc[p] = "done"
    /\ load_data
    /\ log[p].prev.outcome = "done"
    /\ log[p].prev.raw = raw_df[p]

\* C6 as stated: a run that repeats the input of the run before it, with no
\* other writer in between, appends no fact row and leaves the fact table as
\* the first run left it.
C6_Idempotent ==
    \A p \in Procs : RepeatsLastRun(p) =>
        /\ log[p].fact_loaded = << >>
        /\ fact = log[p].fact_at_start

\* C6 amended: the same, for a second run whose MAX(event_time) query
\* succeeded.
C6_IdempotentWhenLookupSucceeds ==
    \A p \in Procs : (RepeatsLastRun(p) /\ ~log[p].max_failed) =>
        /\ log[p].fact_loaded = << >>
        /\ log[p].fact_calls = 0
        /\ fact = log[p].fact_at_start

\* The first run loaded rows; the second, on the same input, loaded none.
C6_Witness ==
    \E p \in Procs :
        /\ RepeatsLastRun(p)
        /\ ~log[p].max_failed
        /\ log[p].prev.loaded > 0
        /\ log[p].fact_loaded = << >>

\* C7: under sequential runs, starting from a dimension table without
\* duplicates, each production_line_id occurs at most once in
\* Dim_ProductionLine; a run that has reconciled has every key of its accepted
\* events in the table, and it inserted a key only if the table it read did
\* not hold it: of successive batches with the same key, the first to
\* reconcile inserts it and the later ones do not.
C7_NoDuplicateKeys ==
    /\ \A k \in BagToSet(dim) : CopiesIn(k, dim) = 1
    /\ \A p \in Procs :
        /\ log[p].dim_inserted \cap log[p].existing_values = {}
        /\ Reconciled(p) =>
              {raw_df[p].rows[i].production_line_id : i \in AcceptedIdx(p)}
                  \subseteq BagToSet(dim)

\* The run before inserted a key; this run's batch holds the same key, has
\* reconciled, and inserted nothing.
C7_Witness ==
    \E p \in Procs :
        /\ Reconciled(p)
        /\ log[p].prev.dim_inserted \cap unique_values(clean_fact_df[p]) # {}
        /\ log[p].dim_calls = 0
        /\ log[p].dim_inserted = {}

\* The distinct keys of the batch of p minus the keys the reconciler read.
KeyDifference(p) ==
    {raw_df[p].rows[i].production_line_id : i \in AcceptedIdx(p)} \ log[p].existing_values

\* C8: check_and_insert_dimension calls to_sql at most once, only when the
\* distinct batch keys minus the keys already in the table is non-empty, and
\* a successful call inserts exactly that difference; when the difference or
\* the accepted-event set is empty it makes no call, raises nothing and
\* inserts nothing.
C8_WriteOnlyDifference ==
    \A p \in Procs :
        /\ log[p].dim_calls \in {0, 1}
        /\ log[p].dim_calls = 1 =>
              /\ KeyDifference(p) # {}
              /\ log[p].failed_at # "dim_write" => log[p].dim_inserted = KeyDifference(p)
        /\ log[p].dim_calls = 0 => log[p].dim_inserted = {}
        /\ (Reconciled(p) /\ KeyDifference(p) # {}) => log[p].dim_calls = 1
        /\ (Reconciled(p) /\ KeyDifference(p) = {}) => log[p].dim_calls = 0
        /\ log[p].failed_at \in {"dim_read", "dim_write"} => AcceptedIdx(p) # {}
        /\ log[p].failed_at = "dim_write" => KeyDifference(p) # {}

\* A batch with two keys, one of them already in the table: one call, which
\* inserted exactly the other key.
C8_Witness ==
    \E p \in Procs :
        /\ Reconciled(p)
        /\ unique_values(clean_fact_df[p]) = {"L1", "L2"}
        /\ log[p].existing_values = {"L1"}
        /\ log[p].dim_calls = 1
        /\ log[p].dim_inserted = {"L2"}

\* C9: with two overlapping runs, each run writes what it computed from its
\* own earlier read, whatever the other run has written since: a successful
\* dimension insert writes exactly the batch keys absent from the table as
\* the run read it, and a successful fact append writes exactly the accepted
\* events newer than the maximum the run read. A key or a fact row held
\* twice was written by both runs.
C9_WritesFollowStaleReads ==
    /\ \A p \in Procs :
        /\ (log[p].dim_calls = 1 /\ log[p].failed_at # "dim_write") =>
              log[p].dim_inserted = KeyDifference(p)
        /\ (log[p].fact_calls = 1 /\ log[p].failed_at # "fact_write") =>
              Rows(log[p].fact_loaded) =
                  {r \in Rows(clean_fact_df[p]) :
                      latest_event_time[p] = NaT \/ r.event_time > latest_event_time[p]}
    /\ \A k \in BagToSet(dim) : CopiesIn(k, dim) > 1 =>
          \A p \in Procs : k \in log[p].dim_inserted /\ k \notin log[p].existing_values
    /\ \A f \in BagToSet(fact) : CopiesIn(f, fact) > 1 =>
          \A p \in Procs : \E r \in Rows(log[p].fact_loaded) : FactColumns(r) = f

\* Both runs read the dimension table before either inserted and both
\* inserted the same key; both read the same maximum (of the empty table)
\* before either appended and both appended the same event.
C9_Witness ==
    /\ \E k \in BagToSet(dim) :
          /\ CopiesIn(k, dim) = 2
          /\ \A p \in Procs : k \in log[p].dim_inserted /\ k \notin log[p].existing_values
    /\ \E f \in BagToSet(fact) :
          /\ CopiesIn(f, fact) = 2
          /\ \A p \in Procs :
                /\ ~log[p].max_failed
                /\ latest_event_time[p] = NaT
                /\ \E r \in Rows(log[p].fact_loaded) : FactColumns(r) = f

\* C10: dimension reconciliation comes before the fact load: no to_sql call
\* on the fact table is made while the run is still reconciling, every row
\* appended had its production_line_id in Dim_ProductionLine at the moment of
\* the append, and a run whose reconciliation failed wrote no fact row.
C10_DimensionBeforeFact ==
    \A p \in Procs :
        /\ pc[p] \in {"extracted", "transformed", "reconcile", "dim_insert"} =>
              log[p].fact_calls = 0
        /\ \A r \in Rows(log[p].fact_loaded) : r.production_line_id \in log[p].dim_at_load
        /\ log[p].failed_at \in {"dim_read", "dim_write"} =>
              /\ log[p].fact_calls = 0
              /\ log[p].fact_loaded = << >>
              /\ fact = log[p].fact_at_start

\* A run inserted a new dimension key and then appended a fact of that line.
C10_Witness ==
    \E p \in Procs :
        /\ pc[p] = "done"
        /\ \E r \in Rows(log[p].fact_loaded) : r.production_line_id \in log[p].dim_inserted

\* The step named step has been attempted by execute_pipeline.
Attempted(step) == CopiesIn(step, attempts) > 0

\* C11: when the query for the maximum event_time raises, run_etl_pipeline
\* does not abort: it prints the warning, takes the fact table to be empty,
\* makes every accepted event eligible, goes on to the fact write, which loads
\* all of them unless the write itself raises, and execute_pipeline goes
\* on from the returned run to generate_analytics_report and nowhere else.
C11_LookupFailureContinues ==
    log[Job].max_failed =>
        /\ log[Job].warning
        /\ latest_event_time[Job] = NaT
        /\ data_to_load[Job] = clean_fact_df[Job]
        /\ pc[Job] \in {"fact_load", "done", "failed"}
        /\ pc[Job] = "failed" => log[Job].failed_at = "fact_write"
        /\ pc[Job] = "done" =>
              /\ log[Job].fact_loaded = clean_fact_df[Job]
              /\ fact = FactAppend(log[Job].fact_at_start, clean_fact_df[Job])
              /\ main_pc \in {"etl", "report", "except", "returned", "exiting", "exited"}
              /\ main_pc \notin {"etl", "report"} => Attempted("generate_analytics_report")
              /\ failures \subseteq {"database_check_privilege", "q1", "q2", "q3",
                                     "report_open", "report_write"}

\* A run whose lookup failed against a table that held a fact loaded every
\* accepted event, one of them not later than that fact, and the invocation
\* ended with the report written and exit status 0.
C11_Witness ==
    /\ main_pc = "exited"
    /\ log[Job].max_failed
    /\ log[Job].fact_at_start # EmptyBag
    /\ \E i \in 1..Len(clean_fact_df[Job]) :
          clean_fact_df[Job][i].event_time <= MaxEventTime(log[Job].fact_at_start)
    /\ log[Job].fact_loaded = clean_fact_df[Job]
    /\ report_file = "written"
    /\ exit_status = 0

\* No step of the invocation has been attempted twice.
NothingRetried ==
    /\ \A step \in BagToSet(attempts) : CopiesIn(step, attempts) = 1
    /\ runs <= 1
    /\ log[Job].dim_calls <= 1
    /\ log[Job].fact_calls <= 1

\* Control of execute_pipeline is in its except clauses or past them.
Escalated == main_pc \in {"except", "exiting", "exited"}

\* The invocation failed: some step raised, and at its end the exit status
\* is not zero and the closing message is the one of a halted run.
EndsAsFailure ==
    /\ Escalated
    /\ "COMPLETED SUCCESSFULLY" \notin stdout
    /\ main_pc = "exited" => exit_status # 0 /\ "HALTED" \in stdout

\* C12 as stated: any failure during a run other than a row-level validation
\* failure or a high-water-mark lookup failure escalates to execute_pipeline,
\* which ends the process with a non-zero exit status and never prints the
\* success message; no operation is retried.
C12_EveryOtherFailureEscalates ==
    /\ NothingRetried
    /\ pc[Job] = "failed" => main_pc = "etl" \/ log[Job].failed_at \in failures
    /\ failures # {} => EndsAsFailure

\* C12, amended: any failure during a run other than a row-level validation
\* failure, a high-water-mark lookup failure or a ProgrammingError of the
\* database check of create_database_if_not_exists escalates to
\* execute_pipeline, which ends the process with a non-zero exit status and
\* never prints the success message; no operation is retried.
C12_EveryRaisedFailureEscalates ==
    /\ NothingRetried
    /\ pc[Job] = "failed" => main_pc = "etl" \/ log[Job].failed_at \in failures
    /\ failures \ {"database_check_privilege"} # {} => EndsAsFailure

\* An invocation whose fact write raised, after a run that quarantined a row,
\* has ended with exit status 1 and the message of a halted run.
C12_Witness ==
    /\ main_pc = "exited"
    /\ "fact_write" \in failures
    /\ quarantined_df[Job] # << >>
    /\ exit_status = 1
    /\ stdout = {"HALTED"}

\* The engines the invocation has acquired.
Acquired == {e \in EngineNames : engines[e] # "none"}

\* The engines connected to the target warehouse, not to the system database.
WarehouseEngines == {"setup_dwh_engine", "dwh_engine"}

\* C13: in every run of execute_pipeline the warehouse engine is acquired once, and
\* every engine acquired during the run has been disposed when the run ends,
\* on the success path and on every failure path.
C13_AcquiredOnceAllReleased ==
    /\ Cardinality(Acquired \cap WarehouseEngines) <= 1
    /\ main_pc = "exited" => \A e \in Acquired : engines[e] = "disposed"

\* C14: the report file is written only by a run in which every earlier step
\* (the ETL and the three aggregation queries) succeeded; a run that fails at
\* any step leaves the report file of before the run unchanged, and no
\* partial report.
C14_ReportOnlyOnSuccess ==
    /\ report_file = "written" =>
          /\ failures \subseteq {"database_check_privilege"}
          /\ load_data => pc[Job] = "done"
          /\ Attempted("generate_analytics_report")
    /\ failures \ {"database_check_privilege"} # {} =>
          report_file \in {"absent", "previous"}

\* The columns of the frames transform_raw_data returns that hold text: the
\* renamed 'timestamp' column, event_time, holds the parsed value.
TextColumns == {"production_line_id", "status_name"}

\* C15: every quarantined record returned by transform_raw_data carries its
\* raw line identifier and status text unchanged, the transformed status_id
\* and event_time, null where the transformation failed, and, when its
\* timestamp did not parse, still the original timestamp text.
C15_QuarantinedKeepsRaw ==
    \A p \in Procs : pc[p] = "transformed" =>
        \A r \in Rows(quarantined_df[p]) :
            LET raw == raw_df[p].rows[r.idx] IN
                /\ r.production_line_id = raw.production_line_id
                /\ r.status_name = raw.status
                /\ r.status_id = MapStatus(raw.status)
                /\ r.event_time = ToDatetime(raw.timestamp)
                /\ r.event_time = NaT => \E c \in TextColumns : r[c] = raw.timestamp

\* The run of p has completed the transformation step and the quarantine
\* step after it.
PastQuarantine(p) ==
    \/ pc[p] \in {"reconcile", "dim_insert", "max_query", "fact_load", "done"}
    \/ pc[p] = "failed" /\ log[p].failed_at \in {"dim_read", "dim_write", "fact_write"}

\* C16 as stated: after each run that completes the transformation step the
\* quarantine file holds exactly the records quarantined by that run.
C16_HoldsExactlyThisRun ==
    PastQuarantine(Job) => quarantine_file = to_csv(quarantined_df[Job])

\* C16, amended: after each run that completes the transformation step and
\* quarantines at least one record, the quarantine file holds exactly the
\* records quarantined by that run; the file changes only in the quarantine
\* step of a run, once, where it is overwritten when the run quarantined
\* something and left as it was, with the records of an earlier run, when
\* the run quarantined nothing.
C16_RewrittenWhenQuarantined ==
    /\ [](PastQuarantine(Job) /\ quarantined_df[Job] # << >>
             => quarantine_file = to_csv(quarantined_df[Job]))
    /\ [][/\ (pc[Job] = "transformed" /\ quarantined_df[Job] # << >>)
                => quarantine_file' = to_csv(quarantined_df[Job])
          /\ (pc[Job] # "transformed" \/ quarantined_df[Job] = << >>)
                => quarantine_file' = quarantine_file]_vars

\* A run that quarantined nothing has ended, after a run that quarantined a
\* record, and the file still holds that record.
C16_Witness ==
    /\ pc[Job] = "done"
    /\ raw_df[Job].rows # << >>
    /\ quarantined_df[Job] = << >>
    /\ quarantine_file # << >>
    /\ log[Job].prev.outcome = "done"

\* The total of line l in the view.
TotalOf(l) == (CHOOSE r \in view_rows : r.production_line_id = l).floor_downtime_seconds

\* C17: for any per-line downtime totals and any positive top_n,
\* run_q3_top_downtime returns exactly min(top_n, number of lines) rows, of
\* distinct lines of the view, each with its own downtime in minutes, in
\* descending order of downtime, and no line left out has more downtime than
\* a line returned; the table has one line for each row.
C17_TopNDescending ==
    q3_df.called =>
        LET n == Len(q3_df.rows)
            returned == {q3_df.rows[i].production_line_id : i \in 1..n}
        IN  /\ n = IF top_n < Cardinality(view_rows) THEN top_n ELSE Cardinality(view_rows)
            /\ Cardinality(returned) = n
            /\ \A i \in 1..n :
                  /\ \E r \in view_rows :
                        r.production_line_id = q3_df.rows[i].production_line_id
                  /\ q3_df.rows[i].downtime[1] =
                        DecimalMinutes(TotalOf(q3_df.rows[i].production_line_id))
            /\ \A i, j \in 1..n :
                  i < j => q3_df.rows[i].downtime[1] >= q3_df.rows[j].downtime[1]
            /\ \A r \in view_rows : r.production_line_id \notin returned =>
                  \A l \in returned : r.floor_downtime_seconds <= TotalOf(l)
            /\ q3_df.table = IF n = 0 THEN <<"No results found.">>
                             ELSE <<"header", "separator">> \o q3_df.rows

\* A call with top_n above the number of lines returned all of them, two or
\* more, the first with more downtime than the last.
C17_Witness ==
    /\ q3_df.called
    /\ Cardinality(view_rows) >= 2
    /\ top_n > Cardinality(view_rows)
    /\ Len(q3_df.rows) = Cardinality(view_rows)
    /\ q3_df.rows[1].downtime[1] > q3_df.rows[Len(q3_df.rows)].downtime[1]

\* The accepted events of the run of p that are not later than the latest
\* fact the table held when the run started.
LateEvents(p) ==
    {r \in Rows(clean_fact_df[p]) :
        /\ log[p].fact_at_start # EmptyBag
        /\ r.event_time <= MaxEventTime(log[p].fact_at_start)}

\* The run of p completed with its late events dropped silently: none of
\* them loaded, none quarantined, and no fact of before the run deleted, so
\* that the latest fact of the table is not earlier than it was.
LateEventsDropped(p) ==
    /\ \A r \in LateEvents(p) :
          /\ r \notin Rows(log[p].fact_loaded)
          /\ FactColumns(r) \notin BagToSet(fact) \ BagToSet(log[p].fact_at_start)
          /\ r.idx \notin Idx(quarantined_df[p])
    /\ \A x \in BagToSet(log[p].fact_at_start) :
          CopiesIn(x, fact) >= CopiesIn(x, log[p].fact_at_start)
    /\ MaxEventTime(fact) >= MaxEventTime(log[p].fact_at_start)

\* C18 as stated: an accepted event whose event_time is not later than the
\* global maximum already in the fact table is dropped silently by every
\* run that presents it: not loaded, not quarantined, and, facts never being
\* deleted, not loaded by a later run either.
C18_LateEventNeverLoaded ==
    \A p \in Procs : (pc[p] = "done" /\ load_data) => LateEventsDropped(p)

\* C18, amended: the same, for every run whose query for the maximum
\* event_time succeeds.
C18_LateEventDroppedWhenLookupSucceeds ==
    \A p \in Procs :
        (pc[p] = "done" /\ load_data /\ ~log[p].max_failed) => LateEventsDropped(p)

\* A run presented again the event the run before it had dropped, of a line
\* with no fact at all in the table, and dropped it again.
C18_Witness ==
    \E p \in Procs :
        /\ RepeatsLastRun(p)
        /\ ~log[p].max_failed
        /\ log[p].prev.loaded = 0
        /\ log[p].fact_loaded = << >>
        /\ \E r \in LateEvents(p) :
              \A x \in BagToSet(fact) : x.production_line_id # r.production_line_id

====
